---- MODULE Spec2Model ----
(***************************************************************************)
(* WooferRobot (src/WooferRobot.py): the onboard control loop of the       *)
(* Woofer quadruped.  step(sim) runs state and contact estimation, gait    *)
(* planning, swing-leg control and the QP balance controller, mixes the    *)
(* QP and swing torques by the active-feet mask, updates the running       *)
(* maxima, logs one column per channel and advances t and i.               *)
(*                                                                         *)
(* Conventions.                                                            *)
(*  - A numpy 1-d array is a sequence; Python index k is TLA+ index k+1.   *)
(*    A Python scalar is a one-element sequence (it broadcasts the same    *)
(*    way as an array of shape (1,)).  Floats are modelled by integers,    *)
(*    with exact arithmetic.                                               *)
(*  - self.data[key] is the sequence of the columns of the 2-d array, so   *)
(*    Len(self.data[key]) is shape[1] and the column data[key][:, j] is    *)
(*    self.data[key][j+1].                                                 *)
(*  - An attribute that step() creates (active_feet, swing_forces,         *)
(*    feet_locations, ref_wrench, torques) is <<>> until it is assigned.   *)
(*  - A Python exception is carried in the field exc of the context that   *)
(*    the statements of step() thread through: no statement runs after a   *)
(*    raise and the assignments made before it stay.                       *)
(***************************************************************************)
EXTENDS Integers, Sequences, FiniteSets, TLC

VARIABLES self, gait, op, last_sim, result, trace, loc, hist, failed

vars == <<self, gait, op, last_sim, result, trace, loc, hist, failed>>

----------------------------------------------------------------------------
(* Bounds of the exploration.                                              *)

\* successful ticks explored, after which no operation is explored
\* (11 ticks write column 10, past the initial 10 columns)
MaxTicks == 11
\* failed ticks explored in one run
MaxFailed == 1

----------------------------------------------------------------------------
(* Program constants.                                                      *)

init_data_size == 10
GrowChunk == 1000
\* WOOFER_CONFIG.MASS*9.81/4, the static support force of one foot
StaticFootForce == 20
\* dt = 0.001 s of MakeWoofer, in microseconds
DefaultDt == 1000

NoExc == "None"

Zeros(n) == [k \in 1..n |-> 0]

Abs(x) == IF x < 0 THEN -x ELSE x

Max(a, b) == IF a >= b THEN a ELSE b

\* [a,b,c]*4
Rep4(v) == v \o v \o v \o v

\* the keys of self.data in insertion order
Keys ==
  << "torque_history", "force_history", "ref_wrench_history",
     "contacts_history", "active_feet_history", "swing_torque_history",
     "swing_force_history", "swing_trajectory", "foot_positions",
     "phase_history", "step_phase_history" >>

KeySet == { Keys[k] : k \in 1..Len(Keys) }

\* the number of rows each array of self.data is constructed with
Rows ==
  [ torque_history |-> 12, force_history |-> 12, ref_wrench_history |-> 6,
    contacts_history |-> 4, active_feet_history |-> 4,
    swing_torque_history |-> 12, swing_force_history |-> 12,
    swing_trajectory |-> 12, foot_positions |-> 12,
    phase_history |-> 1, step_phase_history |-> 1 ]

----------------------------------------------------------------------------
(* numpy and MathUtils.                                                    *)

\* shapes (n,) and (m,) broadcast together
Broadcastable(a, b) == Len(a) = Len(b) \/ Len(a) = 1 \/ Len(b) = 1

BLen(a, b) == Max(Len(a), Len(b))

At(a, k) == IF Len(a) = 1 THEN a[1] ELSE a[k]

\* a * b, a + b, 1 - a on arrays
Mul(a, b) == [k \in 1..BLen(a, b) |-> At(a, k) * At(b, k)]

Add(a, b) == [k \in 1..BLen(a, b) |-> At(a, k) + At(b, k)]

OneMinus(a) == [k \in 1..Len(a) |-> 1 - a[k]]

\* arr[:, j] = v  for an array of n rows: can v be stored, and what is stored
CanStore(n, v) == Len(v) = n \/ Len(v) = 1

Stored(n, v) == [k \in 1..n |-> At(v, k)]

\* RunningMax(n): the running maximum of the absolute values, from zero
RunningMax(n) == Zeros(n)

RunningMaxUpdate(mx, v) == [k \in 1..Len(mx) |-> Max(mx[k], Abs(At(v, k)))]

----------------------------------------------------------------------------
(* The collaborators.  They live outside WooferRobot.py; one simulator     *)
(* snapshot sim fixes what each of them does in the tick: it raises        *)
(* ([raise |-> kind]) or returns ([ret |-> value]).                        *)

GoodState ==
  [ p |-> <<0, 0, 3>>, p_d |-> <<0, 0, 0>>, q |-> <<1, 0, 0, 0>>,
    w |-> <<0, 0, 0>>, j |-> Rep4(<<0, 1, -1>>) ]

\* self.state = None
NoneState == [ none |-> TRUE ]

Nominal ==
  [ name |-> "nominal",
    state_estimator |-> [ ret |-> GoodState ],
    contact_estimator |-> [ ret |-> <<1, 1, 1, 0>> ],
    gait_planner |->
      [ ret |-> << Rep4(<<1, 1, 0>>), Rep4(<<1, -1, 0>>), <<0, 0, 3>>,
                   <<0, 0, 0>>, <<1, 0, 1, 0>>, <<25>>, <<50>> >> ],
    swing_controller |->
      [ ret |-> << Rep4(<<-1, 4, 0>>), Rep4(<<0, 0, -2>>),
                   Rep4(<<1, 0, 1>>), Rep4(<<2, 1, -3>>) >> ],
    kinematics |-> [ ret |-> Rep4(<<2, 1, -3>>) ],
    qp_controller |->
      [ ret |-> << Rep4(<<2, -3, 1>>), Rep4(<<3, -5, 2>>),
                   <<0, 0, 80, 0, 0, 0>> >> ] ]

\* every foot in stance
AllStance ==
  [ name |-> "all_stance",
    state_estimator |-> [ ret |-> GoodState ],
    contact_estimator |-> [ ret |-> <<1, 1, 1, 1>> ],
    gait_planner |->
      [ ret |-> << Rep4(<<1, 1, 0>>), Rep4(<<1, 1, 0>>), <<0, 0, 3>>,
                   <<0, 0, 1>>, <<1, 1, 1, 1>>, <<0>>, <<0>> >> ],
    swing_controller |->
      [ ret |-> << Rep4(<<0, -2, 7>>), Rep4(<<0, 0, 0>>),
                   Rep4(<<0, 0, 0>>), Rep4(<<2, 2, -3>>) >> ],
    kinematics |-> [ ret |-> Rep4(<<2, 2, -3>>) ],
    qp_controller |->
      [ ret |-> << Rep4(<<-6, 1, 2>>), Rep4(<<1, -8, 0>>),
                   <<0, 0, 78, 1, 0, 0>> >> ] ]

\* every foot in swing
AllSwing ==
  [ name |-> "all_swing",
    state_estimator |-> [ ret |-> GoodState ],
    contact_estimator |-> [ ret |-> <<0, 0, 0, 0>> ],
    gait_planner |->
      [ ret |-> << Rep4(<<2, 1, 0>>), Rep4(<<1, 1, 0>>), <<0, 0, 4>>,
                   <<0, 0, 0>>, <<0, 0, 0, 0>>, <<75>>, <<100>> >> ],
    swing_controller |->
      [ ret |-> << Rep4(<<0, -7, 5>>), Rep4(<<1, 0, -4>>),
                   Rep4(<<2, 0, 2>>), Rep4(<<3, 1, -2>>) >> ],
    kinematics |-> [ ret |-> Rep4(<<3, 1, -2>>) ],
    qp_controller |->
      [ ret |-> << Rep4(<<4, 0, -2>>), Rep4(<<0, 0, 0>>),
                   <<0, 0, 0, 0, 0, 0>> >> ] ]

\* one collaborator raises
StateRaises ==
  [ Nominal EXCEPT !.name = "state_raises",
                   !.state_estimator = [ raise |-> "EstimationError" ] ]

ContactRaises ==
  [ AllStance EXCEPT !.name = "contact_raises",
                     !.contact_estimator = [ raise |-> "EstimationError" ] ]

PlannerRaises ==
  [ AllStance EXCEPT !.name = "planner_raises",
                     !.gait_planner = [ raise |-> "PlannerError" ] ]

SwingRaises ==
  [ AllSwing EXCEPT !.name = "swing_raises",
                    !.swing_controller = [ raise |-> "RuntimeError" ] ]

QPRaises ==
  [ AllSwing EXCEPT !.name = "qp_raises",
                    !.qp_controller = [ raise |-> "InfeasibleSolveError" ] ]

\* one collaborator returns malformed output
\* the state estimator returns None
StateNone ==
  [ Nominal EXCEPT !.name = "state_none",
                   !.state_estimator = [ ret |-> NoneState ] ]

MaskShort ==
  [ Nominal EXCEPT !.name = "mask_short",
                   !.gait_planner.ret[5] = <<1, 0, 1>> ]

MaskLong ==
  [ Nominal EXCEPT !.name = "mask_long",
                   !.gait_planner.ret[5] = <<1, 0, 1, 0, 1>> ]

RefWrenchShort ==
  [ Nominal EXCEPT !.name = "ref_wrench_short",
                   !.qp_controller.ret =
                      << Rep4(<<9, 0, -9>>), Rep4(<<-9, 9, 0>>),
                         <<0, 0, 80, 0, 0>> >> ]

\* the gait the planner walks: the well-formed snapshots, in a cycle
Cycle == << Nominal, AllStance, AllSwing >>

\* the snapshots on which a collaborator raises or returns malformed output
Faulty ==
  { StateRaises, ContactRaises, PlannerRaises, SwingRaises, QPRaises,
    StateNone, MaskShort, MaskLong, RefWrenchShort }

Sims == { Cycle[k] : k \in 1..Len(Cycle) } \cup Faulty

Raises(o) == "raise" \in DOMAIN o

----------------------------------------------------------------------------
(* WooferRobot.__init__                                                    *)

InitData == [ key \in KeySet |-> [ c \in 1..init_data_size |-> Zeros(Rows[key]) ] ]

WooferRobot(dt) ==
  [ state |-> NoneState,
    contacts |-> <<>>,
    max_torques |-> RunningMax(12),
    max_forces |-> RunningMax(12),
    data |-> InitData,
    dt |-> dt,
    t |-> 0,
    i |-> 0,
    foot_forces |-> Rep4(<<0, 0, StaticFootForce>>),
    phase |-> <<0>>,
    step_phase |-> <<0>>,
    step_locations |-> Zeros(12),
    p_step_locations |-> Zeros(12),
    swing_torques |-> Zeros(12),
    swing_trajectory |-> Zeros(12),
    foot_positions |-> Zeros(12),
    active_feet |-> <<>>,
    swing_forces |-> <<>>,
    feet_locations |-> <<>>,
    ref_wrench |-> <<>>,
    torques |-> <<>> ]

\* the local variables of step()
NoLocals ==
  [ p_ref |-> <<>>, rpy_ref |-> <<>>, qp_torques |-> <<>>,
    active_feet_12 |-> <<>> ]

----------------------------------------------------------------------------
(* The statements of step() and log_data(), each a map of contexts         *)
(* [self, exc, trace, loc]; trace lists the calls made so far in the tick. *)

Called(ctx, name, arg) ==
  [ ctx EXCEPT !.trace = Append(@, [ call |-> name, arg |-> arg ]) ]

Raise(ctx, e) == [ ctx EXCEPT !.exc = e ]

\* self.state = self.state_estimator.update(sim)
state_estimation(ctx, sim) ==
  LET c == Called(ctx, "state_estimator.update", <<>>)
      o == sim.state_estimator
  IN  IF Raises(o) THEN Raise(c, o.raise)
      ELSE [ c EXCEPT !.self.state = o.ret ]

\* self.contacts = self.contact_estimator.update(sim)
contact_estimation(ctx, sim) ==
  LET c == Called(ctx, "contact_estimator.update", <<>>)
      o == sim.contact_estimator
  IN  IF Raises(o) THEN Raise(c, o.raise)
      ELSE [ c EXCEPT !.self.contacts = o.ret ]

\* a slip: the planner is handed the time of after the tick
gait_planning_next_t(ctx, sim) ==
  LET c == Called(ctx, "gait_planner.update", << ctx.self.t + ctx.self.dt >>)
      o == sim.gait_planner
  IN  IF Raises(o) THEN Raise(c, o.raise)
      ELSE IF Len(o.ret) # 7 THEN Raise(c, "ValueError")
      ELSE [ c EXCEPT !.self.step_locations = o.ret[1],
                      !.self.p_step_locations = o.ret[2],
                      !.loc.p_ref = o.ret[3],
                      !.loc.rpy_ref = o.ret[4],
                      !.self.active_feet = o.ret[5],
                      !.self.phase = o.ret[6],
                      !.self.step_phase = o.ret[7] ]

\* the 7-tuple of gait_planner.update(state, contacts, t, ...) is unpacked
gait_planning(ctx, sim) ==
  LET c == Called(ctx, "gait_planner.update", << ctx.self.t >>)
      o == sim.gait_planner
  IN  IF Raises(o) THEN Raise(c, o.raise)
      ELSE IF Len(o.ret) # 7 THEN Raise(c, "ValueError")
      ELSE [ c EXCEPT !.self.step_locations = o.ret[1],
                      !.self.p_step_locations = o.ret[2],
                      !.loc.p_ref = o.ret[3],
                      !.loc.rpy_ref = o.ret[4],
                      !.self.active_feet = o.ret[5],
                      !.self.phase = o.ret[6],
                      !.self.step_phase = o.ret[7] ]

\* the 4-tuple of swing_controller.update(...) is unpacked
swing_leg_control(ctx, sim) ==
  LET c == Called(ctx, "swing_controller.update", <<>>)
      o == sim.swing_controller
  IN  IF Raises(o) THEN Raise(c, o.raise)
      ELSE IF Len(o.ret) # 4 THEN Raise(c, "ValueError")
      ELSE [ c EXCEPT !.self.swing_torques = o.ret[1],
                      !.self.swing_forces = o.ret[2],
                      !.self.swing_trajectory = o.ret[3],
                      !.self.foot_positions = o.ret[4] ]

\* qp_state = (state['p'], state['p_d'], state['q'], state['w'], state['j'])
rearrange_state(ctx) ==
  IF ctx.self.state = NoneState THEN Raise(ctx, "TypeError")
  ELSE IF {"p", "p_d", "q", "w", "j"} \subseteq DOMAIN ctx.self.state
  THEN ctx
  ELSE Raise(ctx, "KeyError")

\* self.feet_locations = WooferDynamics.LegForwardKinematics(q, j)
forward_kinematics(ctx, sim) ==
  LET c == Called(ctx, "LegForwardKinematics", <<>>)
  IN  [ c EXCEPT !.self.feet_locations = sim.kinematics.ret ]

\* a slip: t recomputed from the tick counter before it is incremented
step_time_from_old_i(ctx) ==
  [ ctx EXCEPT !.self.t = ctx.self.i * ctx.self.dt, !.self.i = @ + 1 ]

\* self.t += self.dt ; self.i += 1
step_time(ctx) ==
  [ ctx EXCEPT !.self.t = @ + ctx.self.dt, !.self.i = @ + 1 ]

\* a slip: time is stepped forward before the solve, not after logging
qp_force_control_after_step_time(ctx, sim) ==
  LET c == Called(step_time(ctx), "qp_controller.Update", ctx.self.foot_forces)
      o == sim.qp_controller
  IN  IF Raises(o) THEN Raise(c, o.raise)
      ELSE IF Len(o.ret) # 3 THEN Raise(c, "ValueError")
      ELSE [ c EXCEPT !.loc.qp_torques = o.ret[1],
                      !.self.foot_forces = o.ret[2],
                      !.self.ref_wrench = o.ret[3] ]

\* (qp_torques, self.foot_forces, self.ref_wrench) = qp_controller.Update(...)
qp_force_control(ctx, sim) ==
  LET c == Called(ctx, "qp_controller.Update", ctx.self.foot_forces)
      o == sim.qp_controller
  IN  IF Raises(o) THEN Raise(c, o.raise)
      ELSE IF Len(o.ret) # 3 THEN Raise(c, "ValueError")
      ELSE [ c EXCEPT !.loc.qp_torques = o.ret[1],
                      !.self.foot_forces = o.ret[2],
                      !.self.ref_wrench = o.ret[3] ]

\* the index list [0,0,0,1,1,1,2,2,2,3,3,3], as TLA+ indexes
LegOfJoint == << 1, 1, 1, 2, 2, 2, 3, 3, 3, 4, 4, 4 >>

\* a slip: the mask tiled, as with the index list [0,1,2,3]*3
Expand_tiled(active_feet) ==
  [ k \in 1..12 |-> active_feet[((k - 1) % 4) + 1] ]

\* active_feet[[0,0,0,1,1,1,2,2,2,3,3,3]]
Expand(active_feet) == [ k \in 1..12 |-> active_feet[LegOfJoint[k]] ]

\* active_feet_12 = self.active_feet[[0,0,0,1,1,1,2,2,2,3,3,3]]
expand_active_feet(ctx) ==
  IF Len(ctx.self.active_feet) < 4 THEN Raise(ctx, "IndexError")
  ELSE [ ctx EXCEPT !.loc.active_feet_12 = Expand(ctx.self.active_feet) ]

\* a slip: the two weights exchanged
Mix_swapped(active_feet_12, qp_torques, swing_torques) ==
  Add(Mul(OneMinus(active_feet_12), qp_torques),
      Mul(active_feet_12, swing_torques))

\* active_feet_12 * qp_torques + (1 - active_feet_12) * swing_torques
Mix(active_feet_12, qp_torques, swing_torques) ==
  Add(Mul(active_feet_12, qp_torques),
      Mul(OneMinus(active_feet_12), swing_torques))

\* self.torques = the mix, when the three arrays broadcast together
mix_torques(ctx) ==
  IF /\ Broadcastable(ctx.loc.active_feet_12, ctx.loc.qp_torques)
     /\ Broadcastable(ctx.loc.active_feet_12, ctx.self.swing_torques)
  THEN [ ctx EXCEPT !.self.torques =
           Mix(ctx.loc.active_feet_12, ctx.loc.qp_torques,
               ctx.self.swing_torques) ]
  ELSE Raise(ctx, "ValueError")

\* self.max_forces.Update(self.foot_forces)
update_max_forces(ctx) ==
  LET c == Called(ctx, "max_forces.Update", ctx.self.foot_forces)
  IN  [ c EXCEPT !.self.max_forces =
          RunningMaxUpdate(@, ctx.self.foot_forces) ]

\* self.max_torques.Update(self.torques)
update_max_torques(ctx) ==
  LET c == Called(ctx, "max_torques.Update", ctx.self.torques)
  IN  IF ctx.self.torques = <<>> THEN Raise(ctx, "AttributeError")
      ELSE [ c EXCEPT !.self.max_torques =
               RunningMaxUpdate(@, ctx.self.torques) ]

\* a slip: the test off by one
NeedsGrowth_past_end(i, data_len) == i > data_len

\* if self.i > data_len - 1
NeedsGrowth(i, data_len) == i > data_len - 1

\* a slip: one column more than the chunk
Grown_one_more(arr) == arr \o [ c \in 1..(GrowChunk + 1) |-> Zeros(Len(arr[1])) ]

\* a slip: a fresh zero array of the grown size, the old columns not copied
Grown_fresh(arr) == [ c \in 1..(Len(arr) + GrowChunk) |-> Zeros(Len(arr[1])) ]

\* np.append(arr, np.zeros((np.shape(arr)[0], 1000)), axis=1)
Grown(arr) == arr \o [ c \in 1..GrowChunk |-> Zeros(Len(arr[1])) ]

\* a slip: the arrays are never grown
grow_data_never(ctx) == ctx

\* a slip: only the array whose length is tested is grown
grow_data_first_key_only(ctx) ==
  LET data_len == Len(ctx.self.data["torque_history"])
  IN  IF NeedsGrowth(ctx.self.i, data_len)
      THEN [ ctx EXCEPT !.self.data["torque_history"] = Grown(@) ]
      ELSE ctx

\* the growth of every array of self.data when column i is past the end
grow_data(ctx) ==
  LET data_len == Len(ctx.self.data["torque_history"])
  IN  IF NeedsGrowth(ctx.self.i, data_len)
      THEN [ ctx EXCEPT !.self.data =
               [ key \in DOMAIN @ |-> Grown(@[key]) ] ]
      ELSE ctx

\* the attribute that log_data stores under each key
Logged(s, key) ==
  CASE key = "torque_history" -> s.torques
    [] key = "force_history" -> s.foot_forces
    [] key = "ref_wrench_history" -> s.ref_wrench
    [] key = "contacts_history" -> s.contacts
    [] key = "active_feet_history" -> s.active_feet
    [] key = "swing_torque_history" -> s.swing_torques
    [] key = "swing_force_history" -> s.swing_forces
    [] key = "swing_trajectory" -> s.swing_trajectory
    [] key = "foot_positions" -> s.foot_positions
    [] key = "phase_history" -> s.phase
    [] key = "step_phase_history" -> s.step_phase

\* self.data[key][:, self.i] = value
write_column(ctx, key) ==
  LET arr == ctx.self.data[key]
      v == Logged(ctx.self, key)
  IN  IF ctx.self.i + 1 > Len(arr) THEN Raise(ctx, "IndexError")
      ELSE IF ~CanStore(Len(arr[1]), v) THEN Raise(ctx, "ValueError")
      ELSE [ ctx EXCEPT !.self.data[key][ctx.self.i + 1] =
               Stored(Len(arr[1]), v) ]

\* the eleven assignments of log_data, in order from the k-th, up to the
\* first that raises
RECURSIVE write_columns(_, _)
write_columns(ctx, k) ==
  IF k > Len(Keys) \/ ctx.exc # NoExc THEN ctx
  ELSE write_columns(write_column(ctx, Keys[k]), k + 1)

log_data_body(ctx) ==
  LET c0 == Called(ctx, "log_data", << ctx.self.i >>)
      c1 == grow_data(c0)
      c2 == update_max_forces(c1)
      c3 == update_max_torques(c2)
  IN  IF c3.exc # NoExc THEN c3 ELSE write_columns(c3, 1)

\* the k-th statement of step(sim)
statement(k, ctx, sim) ==
  CASE k = 1 -> state_estimation(ctx, sim)
    [] k = 2 -> contact_estimation(ctx, sim)
    [] k = 3 -> gait_planning(ctx, sim)
    [] k = 4 -> swing_leg_control(ctx, sim)
    [] k = 5 -> rearrange_state(ctx)
    [] k = 6 -> forward_kinematics(ctx, sim)
    [] k = 7 -> qp_force_control(ctx, sim)
    [] k = 8 -> expand_active_feet(ctx)
    [] k = 9 -> mix_torques(ctx)
    [] k = 10 -> update_max_forces(ctx)
    [] k = 11 -> update_max_torques(ctx)
    [] k = 12 -> log_data_body(ctx)
    [] k = 13 -> step_time(ctx)

\* the statements of step(sim) from the k-th, up to the first that raises
RECURSIVE run(_, _, _)
run(ctx, k, sim) ==
  IF k > 13 \/ ctx.exc # NoExc THEN ctx
  ELSE run(statement(k, ctx, sim), k + 1, sim)

\* the body of step(sim), from the object s
step_body(s, sim) ==
  run([ self |-> s, exc |-> NoExc, trace |-> <<>>, loc |-> NoLocals ], 1, sim)

----------------------------------------------------------------------------
(* The record of a run: what each successful tick produced, taken from     *)
(* the outputs of the collaborators and the torques step() returned.       *)

Produced(sim, torques) ==
  [ torque_history |-> torques,
    force_history |-> sim.qp_controller.ret[2],
    ref_wrench_history |-> sim.qp_controller.ret[3],
    contacts_history |-> sim.contact_estimator.ret,
    active_feet_history |-> sim.gait_planner.ret[5],
    swing_torque_history |-> sim.swing_controller.ret[1],
    swing_force_history |-> sim.swing_controller.ret[2],
    swing_trajectory |-> sim.swing_controller.ret[3],
    foot_positions |-> sim.swing_controller.ret[4],
    phase_history |-> sim.gait_planner.ret[6],
    step_phase_history |-> sim.gait_planner.ret[7] ]

\* the well-formed snapshot of the n-th successful tick (from 0) of a run
\* that starts at offset g of the gait cycle
Scheduled(g, n) == Cycle[((g + n) % Len(Cycle)) + 1]

NoResult == [ kind |-> "none", val |-> <<>>, exc |-> NoExc ]

----------------------------------------------------------------------------
(* The operations.                                                         *)

Init ==
  /\ self = WooferRobot(DefaultDt)
  /\ gait = 0
  /\ op = "__init__"
  /\ last_sim = [ name |-> "none" ]
  /\ result = NoResult
  /\ trace = <<>>
  /\ loc = NoLocals
  /\ hist = <<>>
  /\ failed = 0

\* torques = woofer.step(sim)
step(sim) ==
  LET c == step_body(self, sim)
      ok == c.exc = NoExc
  IN  /\ Len(hist) < MaxTicks
      /\ sim \in Faulty \/ sim = Scheduled(gait, Len(hist))
      /\ sim \in Faulty => failed < MaxFailed
      /\ ok \/ failed < MaxFailed
      /\ self' = c.self
      /\ op' = "step"
      /\ last_sim' = sim
      /\ result' = IF ok
                   THEN [ kind |-> "return", val |-> c.self.torques,
                          exc |-> NoExc ]
                   ELSE [ kind |-> "raise", val |-> <<>>, exc |-> c.exc ]
      /\ trace' = c.trace
      /\ loc' = c.loc
      /\ hist' = IF ok
                 THEN Append(hist, [ sim |-> sim.name,
                                     col |-> Produced(sim, c.self.torques) ])
                 ELSE hist
      /\ failed' = IF ok THEN failed ELSE failed + 1
      /\ UNCHANGED gait

\* the first attribute print_data cannot read, if any
PrintFails(s) ==
  IF s.state = NoneState THEN "TypeError"
  ELSE IF "p" \notin DOMAIN s.state THEN "KeyError"
  ELSE IF "q" \notin DOMAIN s.state THEN "KeyError"
  ELSE IF s.ref_wrench = <<>> \/ s.feet_locations = <<>> \/ s.torques = <<>>
       THEN "AttributeError"
  ELSE NoExc

\* woofer.print_data(): reads the object, writes nothing to it
print_data ==
  /\ Len(hist) < MaxTicks
  /\ op' = "print_data"
  /\ result' = IF PrintFails(self) = NoExc
               THEN [ kind |-> "return", val |-> <<>>, exc |-> NoExc ]
               ELSE [ kind |-> "raise", val |-> <<>>, exc |-> PrintFails(self) ]
  /\ UNCHANGED << self, gait, last_sim, trace, loc, hist, failed >>

\* a slip: the arrays are cut to the written columns in place before saving
save_logs_trims_in_place ==
  LET cut == [ key \in KeySet |-> SubSeq(self.data[key], 1, self.i) ]
  IN  /\ Len(hist) < MaxTicks
      /\ op' = "save_logs"
      /\ result' = [ kind |-> "saved", val |-> cut, exc |-> NoExc ]
      /\ self' = [ self EXCEPT !.data = cut ]
      /\ UNCHANGED << gait, last_sim, trace, loc, hist, failed >>

\* woofer.save_logs(): np.savez('woofer_numpy_log', **self.data)
save_logs ==
  /\ Len(hist) < MaxTicks
  /\ op' = "save_logs"
  /\ result' = [ kind |-> "saved", val |-> self.data, exc |-> NoExc ]
  /\ UNCHANGED << self, gait, last_sim, trace, loc, hist, failed >>

\* woofer.log_data() called by the holder of the object, outside step():
\* the arrays grow if column i is past the end, the maxima are updated and
\* column i is written from the attributes the last step left; i stays
log_data ==
  LET c == log_data_body([ self |-> self, exc |-> NoExc, trace |-> <<>>,
                           loc |-> loc ])
  IN  /\ Len(hist) < MaxTicks
      /\ self' = c.self
      /\ op' = "log_data"
      /\ result' = IF c.exc = NoExc
                   THEN [ kind |-> "return", val |-> <<>>, exc |-> NoExc ]
                   ELSE [ kind |-> "raise", val |-> <<>>, exc |-> c.exc ]
      /\ trace' = c.trace
      /\ UNCHANGED << gait, last_sim, loc, hist, failed >>

Next ==
  \/ \E sim \in Sims : step(sim)
  \/ log_data
  \/ print_data
  \/ save_logs

Spec == Init /\ [][Next]_vars

----------------------------------------------------------------------------
(* Properties.                                                             *)

Collaborators ==
  { "state_estimator", "contact_estimator", "gait_planner",
    "swing_controller", "qp_controller" }

\* the call of each collaborator, as trace names it
CallOf ==
  [ state_estimator |-> "state_estimator.update",
    contact_estimator |-> "contact_estimator.update",
    gait_planner |-> "gait_planner.update",
    swing_controller |-> "swing_controller.update",
    qp_controller |-> "qp_controller.Update" ]

Count(tr, name) == Cardinality({ k \in 1..Len(tr) : tr[k].call = name })

Returned == op = "step" /\ result.kind = "return"

Failed == op = "step" /\ result.kind = "raise"

\* the errors that only the statements of step() and log_data() raise
OwnErrors == { "ValueError", "IndexError", "KeyError" }

\* C1: when a collaborator raises during step(), its error reaches the
\* caller, the collaborator was called once (no retry), and i, t and the
\* whole of self.data are what they were before the tick.
C1_RaiseLeavesCountersAndLog ==
  [][ \A c \in Collaborators :
        (op' = "step" /\ Raises(last_sim'[c]))
        => /\ result'.kind = "raise"
           /\ result'.exc = last_sim'[c].raise
           /\ Count(trace', CallOf[c]) = 1
           /\ trace'[Len(trace')].call = CallOf[c]
           /\ self'.i = self.i
           /\ self'.t = self.t
           /\ self'.data = self.data ]_vars

\* the QP controller raised InfeasibleSolveError after some ticks were logged
C1_Witness ==
  /\ Failed
  /\ result.exc = "InfeasibleSolveError"
  /\ Raises(last_sim.qp_controller)
  /\ self.i = 4
  /\ self.t = 4 * DefaultDt
  /\ self.data["force_history"][4] = Rep4(<<3, -5, 2>>)

\* C2: a tick that fails on malformed collaborator output leaves t, i and
\* the whole of self.data (capacity and columns) as before the tick.
C2_MalformedLeavesCountersAndLog ==
  [][ (op' = "step" /\ result'.kind = "raise" /\ result'.exc \in OwnErrors)
      => /\ self'.i = self.i
         /\ self'.t = self.t
         /\ self'.data = self.data ]_vars

\* C3: i is the number of successful ticks and t is that number times dt;
\* a successful step() adds 1 to i and dt to t, and no other operation and
\* no failed tick changes either.
C3_CountersInLockstep ==
  [][ /\ self'.i = Len(hist')
      /\ self'.t = Len(hist') * self'.dt
      /\ IF op' = "step" /\ result'.kind = "return"
         THEN self'.i = self.i + 1 /\ self'.t = self.t + self.dt
         ELSE self'.i = self.i /\ self'.t = self.t ]_vars

\* three successful ticks with a failed one among them
C3_Witness ==
  /\ Len(hist) = 3
  /\ failed = 1
  /\ self.i = 3
  /\ self.t = 3000

\* the largest absolute value of row k of a channel over the successful ticks
HistMax(h, key, k) ==
  LET seen == { 0 } \cup { Abs(At(h[n].col[key], k)) : n \in 1..Len(h) }
  IN  CHOOSE m \in seen : \A x \in seen : m >= x

\* C4: every channel of the force maximum and of the torque maximum never
\* decreases, and equals the largest absolute value of that channel of the
\* foot forces (of the torques) over the successful ticks so far.
C4_ExtremaOverSuccessfulTicks ==
  [][ \A k \in 1..12 :
        /\ self'.max_forces[k] >= self.max_forces[k]
        /\ self'.max_torques[k] >= self.max_torques[k]
        /\ self'.max_forces[k] = HistMax(hist', "force_history", k)
        /\ self'.max_torques[k] = HistMax(hist', "torque_history", k) ]_vars

\* C5: a successful tick calls Update once on max_forces and once on
\* max_torques, counting the calls of step() and of log_data().
C5_OneUpdatePerTracker ==
  Returned => /\ Count(trace, "max_forces.Update") = 1
              /\ Count(trace, "max_torques.Update") = 1

\* C6: when log_data() runs with i > capacity - 1, every array gains
\* exactly 1000 columns, the columns [0, i) are as before, the new columns
\* other than i are zero, and column i is zero or (in a tick that returns)
\* the value written; when i <= capacity - 1 no capacity changes.
C6_GrowthStep ==
  [][ (op' \in { "step", "log_data" } /\ Count(trace', "log_data") > 0)
      => \A key \in KeySet :
           LET old == self.data[key]
               new == self'.data[key]
               cap == Len(old)
               i == self.i
               value == Logged(self', key)
               written == IF CanStore(Rows[key], value)
                          THEN { Stored(Rows[key], value) }
                          ELSE { }
           IN  IF i > cap - 1
               THEN /\ Len(new) = cap + 1000
                    /\ \A j \in 1..i : new[j] = old[j]
                    /\ \A j \in (cap + 1)..(cap + 1000) :
                         j # i + 1 => new[j] = Zeros(Rows[key])
                    /\ new[i + 1] \in { Zeros(Rows[key]) } \cup written
                    /\ result'.kind = "return" => new[i + 1] \in written
               ELSE Len(new) = cap ]_vars

\* the eleventh successful tick grew the arrays from 10 to 1010 columns
C6_Witness ==
  /\ Returned
  /\ self.i = 11
  /\ trace[Len(trace)].call = "max_torques.Update"
  /\ Len(self.data["phase_history"]) = 1010
  /\ self.data["force_history"][11] = Rep4(<<1, -8, 0>>)
  /\ self.data["force_history"][12] = Zeros(12)

\* C7 as stated: the successful tick that writes column 10 leaves every
\* array with at least 1011 columns and the columns 0..9 as before.
C7_AtLeast1011Columns ==
  [][ (op' = "step" /\ result'.kind = "return" /\ self.i = 10)
      => \A key \in KeySet :
           /\ Len(self'.data[key]) >= 1011
           /\ \A j \in 1..10 : self'.data[key][j] = self.data[key][j] ]_vars

\* C7 amended: the successful tick that writes column 10 leaves every
\* array with exactly 1010 columns (10 and one chunk of 1000) and the
\* columns 0..9 as before.
C7_Exactly1010Columns ==
  [][ (op' = "step" /\ result'.kind = "return" /\ self.i = 10)
      => \A key \in KeySet :
           /\ Len(self'.data[key]) = 1010
           /\ \A j \in 1..10 : self'.data[key][j] = self.data[key][j] ]_vars

\* column 10 is written, after ten ticks that filled the columns 0..9
C7_Witness ==
  /\ Returned
  /\ self.i = 11
  /\ Len(self.data["torque_history"]) = 1010
  /\ self.data["torque_history"][11] = result.val
  /\ \A j \in 1..10 : self.data["torque_history"][j] # Zeros(12)

\* C8: the torques a tick returns have 12 elements, and joint k is
\* m*stance[k] + (1-m)*swing[k], m the active-feet value of the leg of k.
C8_TorquesAreTheBlend ==
  Returned =>
    LET mask == last_sim.gait_planner.ret[5]
        stance == last_sim.qp_controller.ret[1]
        swing == last_sim.swing_controller.ret[1]
    IN  /\ Len(result.val) = 12
        /\ \A k \in 0..11 :
             LET m == mask[(k \div 3) + 1]
             IN  result.val[k + 1] = m * stance[k + 1] + (1 - m) * swing[k + 1]
        /\ mask = <<1, 1, 1, 1>> => result.val = stance
        /\ mask = <<0, 0, 0, 0>> => result.val = swing

\* legs 0 and 2 in stance take the QP torques, legs 1 and 3 the swing torques
C8_Witness ==
  /\ Returned
  /\ self.active_feet = <<1, 0, 1, 0>>
  /\ result.val = <<2, -3, 1, -1, 4, 0, 2, -3, 1, -1, 4, 0>>

\* C9: the 12-element mask of the last tick that expanded one repeats each
\* leg's value 3 times, legs in order: mask12[3j+c] = mask4[j].
C9_MaskExpansion ==
  (op = "step" /\ loc.active_feet_12 # <<>>)
  => /\ Len(loc.active_feet_12) = 12
     /\ \A j \in 0..3 : \A c \in 0..2 :
          loc.active_feet_12[3 * j + c + 1] = last_sim.gait_planner.ret[5][j + 1]

\* [1,0,1,0] expanded
C9_Witness ==
  /\ op = "step"
  /\ last_sim.gait_planner.ret[5] = <<1, 0, 1, 0>>
  /\ loc.active_feet_12 = <<1, 1, 1, 0, 0, 0, 1, 1, 1, 0, 0, 0>>

\* C10: column j of every channel, j below the number of successful ticks,
\* holds what the j-th successful tick produced for that channel.
C10_WrittenPrefixIsTheRecord ==
  \A n \in 1..Len(hist) : \A key \in KeySet :
    /\ n <= Len(self.data[key])
    /\ self.data[key][n] = Stored(Rows[key], hist[n].col[key])

\* eleven ticks logged across a growth, with a failed tick among them
C10_Witness ==
  /\ Len(hist) = 11
  /\ Len(self.data["torque_history"]) = 1010
  /\ failed = 1
  /\ Returned
  /\ self.data["contacts_history"][11] = <<1, 1, 1, 1>>
  /\ self.data["step_phase_history"][10] = <<50>>
  /\ self.data["contacts_history"][1] = <<1, 1, 1, 0>>

\* C11: what save_logs hands out has, for every channel, as many columns
\* as there were successful ticks (the written columns and no others).
C11_ExportIsTheWrittenColumns ==
  op = "save_logs"
  => \A key \in KeySet :
       /\ Len(result.val[key]) = self.i
       /\ \A n \in 1..self.i : result.val[key][n] = self.data[key][n]

\* C12: a failed tick, whichever statement raised, leaves the force and
\* torque maxima and the stored foot forces as they were before the tick,
\* as well as t, i and self.data.
C12_FailedTickChangesNothing ==
  [][ (op' = "step" /\ result'.kind = "raise")
      => /\ self'.max_forces = self.max_forces
         /\ self'.max_torques = self.max_torques
         /\ self'.foot_forces = self.foot_forces
         /\ self'.t = self.t
         /\ self'.i = self.i
         /\ self'.data = self.data ]_vars

\* the calls of one tick in the order of C13: the two estimators, the
\* planner, the swing controller, forward kinematics, the QP controller,
\* one update of each maximum, the append to the log
TickOrder ==
  << "state_estimator.update", "contact_estimator.update",
     "gait_planner.update", "swing_controller.update",
     "LegForwardKinematics", "qp_controller.Update",
     "max_forces.Update", "max_torques.Update", "log_data" >>

CallNames(tr) == [ k \in 1..Len(tr) |-> tr[k].call ]

\* C13: the calls of every tick are made in the fixed order, none twice (a
\* failed tick makes the first calls of the order, up to the one that
\* raised), and log_data appends at the column i of before the increment.
C13_FixedOrderNoRepetition ==
  op = "step"
  => /\ Len(trace) <= Len(TickOrder)
     /\ CallNames(trace) = SubSeq(TickOrder, 1, Len(trace))
     /\ Returned => /\ Len(trace) = Len(TickOrder)
                    /\ trace[Len(trace)].arg = << self.i - 1 >>

\* the foot forces of the last successful tick before the last step, or
\* the constructed ones
ForcesOfPreviousTick ==
  LET before == IF Returned THEN Len(hist) - 1 ELSE Len(hist)
  IN  IF before = 0 THEN Rep4(<<0, 0, StaticFootForce>>)
      ELSE hist[before].col["force_history"]

\* C14: the foot forces passed to the QP controller are its output of the
\* previous successful tick, or [0, 0, MASS*9.81/4]*4 when no tick has
\* succeeded; column i of force_history is the controller's output of tick i.
C14_PreviousFootForcesPassed ==
  /\ \A k \in 1..Len(trace) :
       (op = "step" /\ trace[k].call = "qp_controller.Update")
       => trace[k].arg = ForcesOfPreviousTick
  /\ Returned
     => self.data["force_history"][self.i] = last_sim.qp_controller.ret[2]

\* the number of successful ticks before the last operation
TicksBefore == IF Returned THEN self.i - 1 ELSE self.i

\* C15: the planner is handed the time of before the tick, the number of
\* successful ticks so far times dt (0 on the first), and column i of
\* phase_history and step_phase_history is what the planner returned in the
\* tick that wrote it.
C15_PlannerTimeAndPhases ==
  /\ (op = "step" /\ Len(trace) >= 3)
     => /\ trace[3].call = "gait_planner.update"
        /\ trace[3].arg = << TicksBefore * self.dt >>
  /\ Returned
     => /\ self.data["phase_history"][self.i]
             = Stored(1, last_sim.gait_planner.ret[6])
        /\ self.data["step_phase_history"][self.i]
             = Stored(1, last_sim.gait_planner.ret[7])

C15_Witness ==
  /\ Returned
  /\ self.i = 3
  /\ trace[3].arg = << 2 * DefaultDt >>
  /\ last_sim.gait_planner.ret[6] = <<75>>
  /\ self.data["phase_history"][3] = <<75>>
  /\ self.data["step_phase_history"][3] = <<100>>

\* C16: after at least one successful tick, print_data and save_logs leave
\* the whole object as it was: t, i, self.data, the maxima, the foot forces
\* and the torques among the rest.
C16_PrintAndSaveReadOnly ==
  [][ (op' \in { "print_data", "save_logs" } /\ Len(hist) >= 1)
      => /\ self'.t = self.t
         /\ self'.i = self.i
         /\ self'.data = self.data
         /\ self'.max_forces = self.max_forces
         /\ self'.max_torques = self.max_torques
         /\ self'.foot_forces = self.foot_forces
         /\ self'.torques = self.torques
         /\ self' = self ]_vars

C16_Witness ==
  /\ op = "save_logs"
  /\ Len(hist) = 2
  /\ self.i = 2
  /\ Len(result.val["torque_history"]) = init_data_size
  /\ self.torques # <<>>

\* C17: i never exceeds the number of columns of any array, and a tick
\* that reaches log_data finds column i inside every array: no write of
\* log_data raises IndexError.
C17_WriteIndexInBounds ==
  /\ \A key \in KeySet : self.i <= Len(self.data[key])
  /\ (op \in { "step", "log_data" } /\ Count(trace, "log_data") > 0)
     => /\ result.exc # "IndexError"
        /\ \A key \in KeySet : TicksBefore < Len(self.data[key])

C17_Witness ==
  /\ Returned
  /\ self.i = 11
  /\ trace[9] = [ call |-> "log_data", arg |-> <<10>> ]
  /\ \A key \in KeySet : Len(self.data[key]) = init_data_size + GrowChunk

\* the keys and the row counts of self.data are those of construction and
\* all arrays have as many columns as torque_history
SameShape(data) ==
  /\ DOMAIN data = KeySet
  /\ \A key \in KeySet :
       /\ Len(data[key]) = Len(data["torque_history"])
       /\ \A c \in 1..Len(data[key]) : Len(data[key][c]) = Rows[key]

\* C18: in every state the eleven arrays have the same number of columns
\* and the keys and row counts (12,12,6,4,4,12,12,12,12,1,1) of
\* construction; the number of columns starts at 10, a tick or a call of
\* log_data adds 1000 to it at most once and nothing else changes it, so it
\* is 10 + 1000*g.
C18_CommonCapacity ==
  [][ /\ op = "__init__" => SameShape(self.data)
      /\ SameShape(self'.data)
      /\ [ k \in 1..Len(Keys) |-> Rows[Keys[k]] ]
           = <<12, 12, 6, 4, 4, 12, 12, 12, 12, 1, 1>>
      /\ (Len(self.data["torque_history"]) - init_data_size) % GrowChunk = 0
      /\ LET old == Len(self.data["torque_history"])
             new == Len(self'.data["torque_history"])
         IN  IF op' \in { "step", "log_data" }
             THEN new \in { old, old + GrowChunk }
             ELSE new = old ]_vars

C18_Witness ==
  /\ Failed
  /\ result.exc = "ValueError"
  /\ self.i = 10
  /\ failed = 1
  /\ \A key \in KeySet : Len(self.data[key]) = 1010

====
